---- MODULE Spec2Model ----
(***************************************************************************)
(* A model of pytest-lisa (src/pytest-lisa/lisa.py): the collection hook   *)
(* pytest_collection_modifyitems (metadata validation, playbook criteria   *)
(* matching, selection with top-up, run-everything fallback, exclusion)    *)
(* and the scope extractor LISAScheduling._split_scope.                    *)
(*                                                                         *)
(* Python values: a str is a sequence of one-character strings, a list is  *)
(* a sequence, a dict is a record, None is the empty tuple and an          *)
(* Optional value v is <<v>>.                                              *)
(***************************************************************************)
EXTENDS Integers, Sequences, FiniteSets, TLC

\* Bounds of the model: the longest collection and the longest playbook.
MaxItems == 2
MaxCriteria == 2

None == <<>>
Some(v) == <<v>>

Range(s) == {s[k] : k \in 1..Len(s)}

\* list.count(x)
Count(x, s) == Cardinality({k \in 1..Len(s) : s[k] = x})

\* [x for _ in range(n)]: range(n) is empty when n <= 0
Copies(x, n) == IF n <= 0 THEN <<>> ELSE [k \in 1..n |-> x]

\* All sequences over S of length at most n
RECURSIVE SeqsUpTo(_, _)
SeqsUpTo(S, n) ==
  IF n = 0 THEN {<<>>}
  ELSE LET shorter == SeqsUpTo(S, n - 1)
       IN shorter \cup {Append(s, x) : s \in {t \in shorter : Len(t) = n - 1}, x \in S}

(***************************************************************************)
(* Strings                                                                 *)
(***************************************************************************)
Lower(ch) ==
  CASE ch = "C" -> "c" [] ch = "D" -> "d" [] ch = "F" -> "f"
    [] ch = "L" -> "l" [] ch = "P" -> "p" [] ch = "S" -> "s"
    [] ch = "X" -> "x" [] OTHER -> ch

\* str.casefold()
casefold(s) == [k \in 1..Len(s) |-> Lower(s[k])]

\* sub in s
StrIn(sub, s) ==
  \E k \in 0..(Len(s) - Len(sub)) : SubSeq(s, k + 1, k + Len(sub)) = sub

\* Truthiness of an Optional[str], an Optional[int] and a list
TruthyStr(o) == o # None /\ o[1] # <<>>
TruthyInt(o) == o # None /\ o[1] # 0
TruthyList(l) == l # <<>>

(***************************************************************************)
(* lisa_schema                                                             *)
(***************************************************************************)
Functional == <<"F", "u", "n", "c", "t", "i", "o", "n", "a", "l">>
Performance == <<"P", "e", "r", "f", "o", "r", "m", "a", "n", "c", "e">>
Stress == <<"S", "t", "r", "e", "s", "s">>
Community == <<"C", "o", "m", "m", "u", "n", "i", "t", "y">>
Longhaul == <<"L", "o", "n", "g", "h", "a", "u", "l">>

Categories == {Functional, Performance, Stress, Community, Longhaul}
Priorities == {0, 1, 2, 3}
RequiredKeys == {"platform", "category", "area", "priority"}

\* The defaults of the optional keys, for the keys kw lacks
SchemaDefaults(kw) ==
  [k \in {"features", "tags"} \ DOMAIN kw |-> <<>>]

\* lisa_schema.validate(kw): a value that fails its key's schema raises
\* SchemaError while the keys are walked; a required key that is absent raises
\* SchemaMissingKeyError after the walk; otherwise the validated dict with the
\* defaults of the absent optional keys.
WrongValueKeys(kw) ==
  {k \in DOMAIN kw :
     \/ k = "category" /\ kw[k] \notin Categories
     \/ k = "priority" /\ kw[k] \notin Priorities}

lisa_schema_validate(kw) ==
  IF WrongValueKeys(kw) # {}
  THEN [raised |-> "SchemaError", value |-> kw]
  ELSE IF ~(RequiredKeys \subseteq DOMAIN kw)
  THEN [raised |-> "SchemaMissingKeyError", value |-> kw]
  ELSE [raised |-> "", value |-> kw @@ SchemaDefaults(kw)]

\* validate_mark(mark): what it raises ("" when it returns) and mark.kwargs
\* afterwards
validate_mark(mark) ==
  IF mark = None THEN [raised |-> "", value |-> <<>>]
  ELSE IF mark[1].args # <<>>
  THEN [raised |-> "AssertionError", value |-> mark[1].kwargs]
  ELSE lisa_schema_validate(mark[1].kwargs)

\* except (SchemaMissingKeyError, AssertionError)
Caught == {"SchemaMissingKeyError", "AssertionError"}

(***************************************************************************)
(* The collected items.  An item is an object: its identity is its index   *)
(* in ItemPool.                                                            *)
(***************************************************************************)
Mark(args, kwargs) == Some([args |-> args, kwargs |-> kwargs])

ItemPool == <<
  \* 1: priority 0, area xdp, tags a b
  [name |-> <<"s", "m">>, module |-> <<"n", "e", "t">>,
   mark |-> Mark(<<>>, [platform |-> <<"z">>, category |-> Functional,
                        area |-> <<"x", "d", "p">>, priority |-> 0,
                        tags |-> <<"a", "b">>])],
  \* 2: priority 1, area XDP, no tags key
  [name |-> <<"s", "x">>, module |-> <<"n", "e", "t">>,
   mark |-> Mark(<<>>, [platform |-> <<"z">>, category |-> Performance,
                        area |-> <<"X", "D", "P">>, priority |-> 1])],
  \* 3: priority 2, tags a
  [name |-> <<"p", "s", "m">>, module |-> <<"d", "s", "k">>,
   mark |-> Mark(<<>>, [platform |-> <<"z">>, category |-> Functional,
                        area |-> <<"d", "s", "k">>, priority |-> 2,
                        tags |-> <<"a">>, features |-> <<>>])],
  \* 4: priority 3
  [name |-> <<"l", "h">>, module |-> <<"d", "s", "k">>,
   mark |-> Mark(<<>>, [platform |-> <<"z">>, category |-> Stress,
                        area |-> <<"n", "e", "t">>, priority |-> 3,
                        tags |-> <<"b">>])],
  \* 5: no lisa marker (its name and module would match)
  [name |-> <<"s", "m", "l">>, module |-> <<"n", "e", "t">>, mark |-> None],
  \* 6: positional argument on the marker
  [name |-> <<"a", "r", "g">>, module |-> <<"n", "e", "t">>,
   mark |-> Mark(<<"x">>, [platform |-> <<"z">>, category |-> Functional,
                          area |-> <<"x", "d", "p">>, priority |-> 1])],
  \* 7: required key area missing
  [name |-> <<"m", "i", "s">>, module |-> <<"n", "e", "t">>,
   mark |-> Mark(<<>>, [platform |-> <<"z">>, category |-> Functional,
                        priority |-> 1])],
  \* 8: category outside its set
  [name |-> <<"c", "a", "t">>, module |-> <<"n", "e", "t">>,
   mark |-> Mark(<<>>, [platform |-> <<"z">>, category |-> <<"B", "a", "d">>,
                        area |-> <<"x", "d", "p">>, priority |-> 1])],
  \* 9: priority outside its set
  [name |-> <<"p", "r", "i">>, module |-> <<"n", "e", "t">>,
   mark |-> Mark(<<>>, [platform |-> <<"z">>, category |-> Functional,
                        area |-> <<"x", "d", "p">>, priority |-> 4])],
  \* 10: priority 1 again
  [name |-> <<"l", "x">>, module |-> <<"d", "s", "k">>,
   mark |-> Mark(<<>>, [platform |-> <<"z">>, category |-> Stress,
                        area |-> <<"n", "e", "t">>, priority |-> 1])]
>>

ItemIds == 1..Len(ItemPool)

\* Three items of priority 1, 2 and 1
PriorityOneTwoOne == <<2, 3, 10>>

\* Collections: lists of distinct items, at most MaxItems long, the last item
\* of the pool being collected in PriorityOneTwoOne only
Collections ==
  {s \in SeqsUpTo(ItemIds \ {PriorityOneTwoOne[3]}, MaxItems) :
     \A j, k \in 1..Len(s) : s[j] = s[k] => j = k}
    \cup {PriorityOneTwoOne}

\* item.get_closest_marker("lisa")
get_closest_marker(i) == ItemPool[i].mark

InitialKwargs ==
  [i \in ItemIds |->
     IF get_closest_marker(i) = None THEN <<>> ELSE get_closest_marker(i)[1].kwargs]
(***************************************************************************)
(* The playbook: criteria records as pytest_playbook_schema validates them *)
(***************************************************************************)
\* A record with every key at its schema default
DefaultCriteria ==
  [name |-> None, module |-> None, area |-> None, category |-> None,
   priority |-> None, tags |-> <<>>, times |-> 1, exclude |-> FALSE]

\* Optional("times", default=1): int accepts any integer
Times == {-1, 0, 1, 2}

ByName == [DefaultCriteria EXCEPT !.name = Some(<<"s", "m">>)]
ByArea == [DefaultCriteria EXCEPT !.area = Some(<<"x", "D", "p">>)]
EnginePatterns == {ByName, ByArea}

\* Records for the selection engine: a few patterns, every times, include and
\* exclude
EngineRecords ==
  {[p EXCEPT !.times = t] : p \in EnginePatterns, t \in Times}
    \cup {[p EXCEPT !.exclude = TRUE] : p \in EnginePatterns}

\* Records for the matcher: every combination of set and unset fields,
\* to include and to exclude
MatchRecords ==
  {[DefaultCriteria EXCEPT !.name = n, !.module = m, !.area = a,
                           !.category = g, !.priority = p, !.tags = t,
                           !.exclude = x] :
     x \in BOOLEAN,
     n \in {None, Some(<<>>), Some(<<"s", "m">>)},
     m \in {None, Some(<<"d", "s">>)},
     a \in {None, Some(<<"x", "D", "p">>)},
     g \in {None, Some(<<"f", "u", "n", "c", "t", "i", "o", "n", "a", "l">>)},
     p \in {None} \cup {Some(q) : q \in Priorities},
     t \in {<<>>, <<"a">>, <<"b", "a">>}}

\* - priority: 1
\*   times: 2
PriorityOneTwice == [DefaultCriteria EXCEPT !.priority = Some(1), !.times = 2]

Playbooks ==
  SeqsUpTo(EngineRecords, MaxCriteria)
    \cup {<<r>> : r \in MatchRecords}
    \cup {<<PriorityOneTwice>>}

(***************************************************************************)
(* LISAScheduling._split_scope                                             *)
(***************************************************************************)
\* The longest list of parameters appended to a test name
MaxParams == 2

\* \w, over the characters the model's identifiers use
WordChars == {"A", "B", "K", "f", "g", "m", "n", "a", "b", "1", "_"}

\* Where the run of \w characters that starts at position p of s ends: the
\* first position from p on that holds no \w character
RECURSIVE WordEnd(_, _)
WordEnd(s, p) ==
  IF p <= Len(s) /\ s[p] \in WordChars THEN WordEnd(s, p + 1) ELSE p

\* regex.findall(nodeid) for regex = \[(\w+)\]: the groups of the matches
\* found left to right from position p, a match being "[", one or more \w
\* characters and "]"; the search goes on after a match, or one character on
RECURSIVE findall(_, _)
findall(s, p) ==
  IF p > Len(s) THEN <<>>
  ELSE LET e == WordEnd(s, p + 1)
       IN IF s[p] = "[" /\ e > p + 1 /\ e <= Len(s) /\ s[e] = "]"
          THEN <<SubSeq(s, p + 1, e - 1)>> \o findall(s, e + 1)
          ELSE findall(s, p + 1)

\* "/".join(tokens)
RECURSIVE join(_)
join(tokens) ==
  IF tokens = <<>> THEN <<>>
  ELSE IF Len(tokens) = 1 THEN tokens[1]
  ELSE tokens[1] \o <<"/">> \o join(Tail(tokens))

\* LoadScopeScheduling._split_scope: nodeid.rsplit("::", 1)[0]
rsplit_scope(nodeid) ==
  LET at == {k \in 1..(Len(nodeid) - 1) : nodeid[k] = ":" /\ nodeid[k + 1] = ":"}
  IN IF at = {} THEN nodeid
     ELSE SubSeq(nodeid, 1, (CHOOSE k \in at : \A j \in at : j <= k) - 1)

\* A slip: the override is lost and LoadScopeScheduling's rule is used
_split_scope_base(nodeid) == rsplit_scope(nodeid)

_split_scope(nodeid) ==
  IF "[" \in Range(nodeid) THEN join(findall(nodeid, 1))
  ELSE rsplit_scope(nodeid)

\* A node id as pytest builds it: the path of the module (and class), "::",
\* the test function, and "[id]" per parametrization
RECURSIVE Brackets(_)
Brackets(params) ==
  IF params = <<>> THEN <<>>
  ELSE <<"[">> \o Head(params) \o <<"]">> \o Brackets(Tail(params))

NodeId(parts) == parts.path \o <<":", ":">> \o parts.func \o Brackets(parts.params)

Paths == {<<"m">>, <<"n">>, <<"m", ":", ":", "K">>}
Funcs == {<<"f">>, <<"g">>}
\* Parameter ids: words, and ids a \w+ does not cover
ParamIds == {<<"A">>, <<"B">>, <<"a", "1">>, <<"a", "-", "b">>, <<>>}

NodeParts ==
  [path : Paths, func : Funcs, params : SeqsUpTo(ParamIds, MaxParams)]

VARIABLES
  parts,   \* the pieces the node id is made of
  nodeid,  \* the argument of _split_scope
  scope    \* what _split_scope returned, None before the call

scopeVars == <<parts, nodeid, scope>>

(***************************************************************************)
(* The scope scheduler.  LISAScheduling inherits everything but            *)
(* _split_scope from xdist's LoadScopeScheduling, which is not part of the *)
(* repository: the scheduler below follows the specification's section 4.5 *)
(* and groups by _split_scope.                                             *)
(***************************************************************************)
\* The longest selected item list and the number of workers
MaxNodes == 3
MaxWorkers == 2

WorkerIds == 1..MaxWorkers

\* The node ids of the selected items: two functions parametrized with A, one
\* with B, one with no parameter
SchedNodeIds ==
  {NodeId([path |-> <<"m">>, func |-> <<"f">>, params |-> <<<<"A">>>>]),
   NodeId([path |-> <<"m">>, func |-> <<"g">>, params |-> <<<<"A">>>>]),
   NodeId([path |-> <<"m">>, func |-> <<"f">>, params |-> <<<<"B">>>>]),
   NodeId([path |-> <<"m">>, func |-> <<"f">>, params |-> <<>>])}

\* The item list of the specification's scenario 4: scopes of 5, 1 and 1
\* items, in that order
Scenario4 ==
  LET fA == NodeId([path |-> <<"m">>, func |-> <<"f">>, params |-> <<<<"A">>>>])
      gA == NodeId([path |-> <<"m">>, func |-> <<"g">>, params |-> <<<<"A">>>>])
      fB == NodeId([path |-> <<"m">>, func |-> <<"f">>, params |-> <<<<"B">>>>])
      f == NodeId([path |-> <<"m">>, func |-> <<"f">>, params |-> <<>>])
  IN <<fA, gA, fA, gA, fA, fB, f>>

\* A slip: one entry of the work queue per item instead of one per scope
ScopeKeys_perItem(coll) == [p \in 1..Len(coll) |-> _split_scope(coll[p])]

\* The scopes of a collection, each once, in the order of their first item
RECURSIVE ScopeKeys(_)
ScopeKeys(coll) ==
  IF coll = <<>> THEN <<>>
  ELSE LET other(n) == _split_scope(n) # _split_scope(Head(coll))
       IN <<_split_scope(Head(coll))>> \o ScopeKeys(SelectSeq(Tail(coll), other))

\* The work unit of a scope: the positions of its items, in collection order
Unit(coll, key) ==
  LET InScope(p) == _split_scope(coll[p]) = key
  IN SelectSeq([p \in 1..Len(coll) |-> p], InScope)

\* The outstanding work of a worker: the items of the scopes assigned to it
\* and not reported complete
RECURSIVE Load(_, _)
Load(scopes, us) ==
  IF scopes = <<>> THEN 0 ELSE Len(us[Head(scopes)]) + Load(Tail(scopes), us)

\* A slip: the work of a worker counted in scopes, not in items
LeastLoaded_fewestScopes(ws, out, us) ==
  LET least(k) == \A j \in 1..Len(ws) : Len(out[ws[k]]) <= Len(out[ws[j]])
      first == CHOOSE k \in 1..Len(ws) : least(k) /\ \A j \in 1..(k - 1) : ~least(j)
  IN ws[first]

\* The worker with the least outstanding work, the first registered of those
LeastLoaded(ws, out, us) ==
  LET least(k) == \A j \in 1..Len(ws) : Load(out[ws[k]], us) <= Load(out[ws[j]], us)
      first == CHOOSE k \in 1..Len(ws) : least(k) /\ \A j \in 1..(k - 1) : ~least(j)
  IN ws[first]

Without(seq, x) == LET other(y) == y # x IN SelectSeq(seq, other)

VARIABLES
  phase,        \* COLLECTING | DISTRIBUTING | DRAINING | DONE
  collection,   \* the node ids of the final item list
  units,        \* scope -> the positions of its items
  workqueue,    \* the scopes not yet assigned
  workers,      \* the connected workers, in registration order
  gone,         \* the workers that have disconnected
  outstanding,  \* worker -> the scopes assigned to it and not complete
  assignments,  \* every assign(workerId, scope, items[]) sent, in order
  completed,    \* the scopes reported complete
  failed        \* the scopes outstanding on a worker that disconnected

schedVars ==
  <<phase, collection, units, workqueue, workers, gone, outstanding,
    assignments, completed, failed>>

(***************************************************************************)
(* pytest_collection_modifyitems                                           *)
(***************************************************************************)
VARIABLES
  collected,     \* the items as pytest collected them (the hook's argument)
  items,         \* the list `items`, which the hook rewrites in place
  kwargs,        \* mark.kwargs of every item
  pc,            \* validate | select | done | exit | error
  vi,            \* position of the validation loop
  criteria,      \* playbook.playbook.get("criteria", [])
  ci, ii,        \* positions of the loops over criteria and over items
  included, excluded,
  hit,           \* the last value of `if any([...])` (FALSE after `continue`)
  usedFallback,  \* whether `if not included` was taken
  exitName,      \* the item named by pytest.exit's message
  raised         \* the exception that ended the hook, "" if none

hookVars ==
  <<collected, items, kwargs, pc, vi, criteria, ci, ii, included, excluded,
    hit, usedFallback, exitName, raised>>

vars == <<hookVars, scopeVars, schedVars>>

HasMark(i) == get_closest_marker(i) # None

\* The marker of item i with its current kwargs
CurrentMark(i, kws) ==
  IF get_closest_marker(i) = None THEN None
  ELSE Mark(get_closest_marker(i)[1].args, kws[i])

\* The list given to any(): one entry per criteria field
Matches(c, it, kw) ==
  \/ TruthyStr(c.name) /\ StrIn(c.name[1], it.name)
  \/ TruthyStr(c.module) /\ StrIn(c.module[1], it.module)
  \/ TruthyStr(c.area) /\ casefold(c.area[1]) = casefold(kw.area)
  \/ TruthyStr(c.category) /\ casefold(c.category[1]) = casefold(kw.category)
  \/ TruthyInt(c.priority) /\ c.priority[1] = kw.priority
  \/ TruthyList(c.tags) /\ Range(c.tags) \subseteq Range(kw.tags)

\* A slip: the name and the module are matched before the marker is looked for
Selects_beforeMarkCheck(c, i, kws) ==
  \/ TruthyStr(c.name) /\ StrIn(c.name[1], ItemPool[i].name)
  \/ TruthyStr(c.module) /\ StrIn(c.module[1], ItemPool[i].module)
  \/ HasMark(i) /\ Matches(c, ItemPool[i], kws[i])

\* Whether the loop body calls select for criteria record c and item i:
\* an item without the marker is skipped before any field is looked at
Selects(c, i, kws) == HasMark(i) /\ Matches(c, ItemPool[i], kws[i])

\* A slip: `times` copies are appended whatever `included` already holds
select_sum(item, times, exclude, inc, exc) ==
  IF exclude
  THEN [included |-> inc, excluded |-> Append(exc, item)]
  ELSE [included |-> inc \o Copies(item, times), excluded |-> exc]

\* A slip: an item already in `included` is never topped up
select_once(item, times, exclude, inc, exc) ==
  IF exclude
  THEN [included |-> inc, excluded |-> Append(exc, item)]
  ELSE [included |-> IF Count(item, inc) = 0 THEN inc \o Copies(item, times) ELSE inc,
        excluded |-> exc]

\* A slip: the copies are put at the front of `included`
select_prepend(item, times, exclude, inc, exc) ==
  IF exclude
  THEN [included |-> inc, excluded |-> Append(exc, item)]
  ELSE [included |-> Copies(item, times - Count(item, inc)) \o inc,
        excluded |-> exc]

\* select(item, times, exclude): the lists included and excluded afterwards
select(item, times, exclude, inc, exc) ==
  IF exclude
  THEN [included |-> inc, excluded |-> Append(exc, item)]
  ELSE [included |-> inc \o Copies(item, times - Count(item, inc)),
        excluded |-> exc]

\* Slips: the fallback is never applied; `included = items` without its test
Fallback_never(inc, its) == inc
Fallback_always(inc, its) == its

\* if not included: included = items
Fallback(inc, its) == IF inc = <<>> THEN its ELSE inc

\* A slip: `for e in excluded: included.remove(e)`, which removes one
\* occurrence per exclusion
RECURSIVE RemoveFirst(_, _)
RemoveFirst(seq, x) ==
  IF seq = <<>> THEN <<>>
  ELSE IF Head(seq) = x THEN Tail(seq)
  ELSE <<Head(seq)>> \o RemoveFirst(Tail(seq), x)

RECURSIVE FinalItems_removeOnce(_, _)
FinalItems_removeOnce(inc, exc) ==
  IF exc = <<>> THEN inc
  ELSE FinalItems_removeOnce(RemoveFirst(inc, Head(exc)), Tail(exc))

\* [i for i in included if i not in excluded]
FinalItems(inc, exc) ==
  LET kept(i) == i \notin Range(exc) IN SelectSeq(inc, kept)

\* `for c in criteria: for item in items:` as a whole: the lists included and
\* excluded after the first n turns
RECURSIVE Turns(_, _, _, _)
Turns(cs, its, kws, n) ==
  IF n = 0 THEN [included |-> <<>>, excluded |-> <<>>]
  ELSE LET before == Turns(cs, its, kws, n - 1)
           c == cs[((n - 1) \div Len(its)) + 1]
           i == its[((n - 1) % Len(its)) + 1]
       IN IF Selects(c, i, kws)
          THEN select(i, c.times, c.exclude, before.included, before.excluded)
          ELSE before

\* The hook from the criteria loops on, as a function of the items, the
\* playbook's criteria and the validated marks: the final item list and
\* whether the fallback applied
modifyitems(its, cs, kws) ==
  LET after == Turns(cs, its, kws, Len(cs) * Len(its))
  IN [items |-> FinalItems(Fallback(after.included, its), after.excluded),
      fallback |-> after.included = <<>>]

InitHook ==
  /\ collected \in Collections
  /\ items = collected
  /\ kwargs = InitialKwargs
  /\ pc = "validate"
  /\ vi = 1
  /\ criteria = <<>>
  /\ ci = 1
  /\ ii = 1
  /\ included = <<>>
  /\ excluded = <<>>
  /\ hit = FALSE
  /\ usedFallback = FALSE
  /\ exitName = <<>>
  /\ raised = ""

\* The scope extractor at rest
ScopeIdle ==
  /\ parts = [path |-> <<>>, func |-> <<>>, params |-> <<>>]
  /\ nodeid = <<>>
  /\ scope = None

\* The scheduler before a run
SchedIdle ==
  /\ phase = "COLLECTING"
  /\ collection = <<>>
  /\ units = <<>>
  /\ workqueue = <<>>
  /\ workers = <<>>
  /\ gone = {}
  /\ outstanding = [w \in WorkerIds |-> <<>>]
  /\ assignments = <<>>
  /\ completed = {}
  /\ failed = {}

Init == InitHook /\ ScopeIdle /\ SchedIdle

\* One turn of `for item in items: try: validate_mark(...) except ...`
ValidateItem ==
  /\ pc = "validate"
  /\ vi <= Len(items)
  /\ LET i == items[vi]
         r == validate_mark(CurrentMark(i, kwargs))
     IN IF r.raised = ""
        THEN /\ kwargs' = [kwargs EXCEPT ![i] = r.value @@ kwargs[i]]
             /\ vi' = vi + 1
             /\ UNCHANGED <<pc, exitName, raised>>
        ELSE /\ pc' = IF r.raised \in Caught THEN "exit" ELSE "error"
             /\ exitName' = IF r.raised \in Caught THEN ItemPool[i].name ELSE <<>>
             /\ raised' = r.raised
             /\ UNCHANGED <<kwargs, vi>>
  /\ UNCHANGED <<collected, items, criteria, ci, ii, included, excluded, hit,
                 usedFallback>>
  /\ UNCHANGED <<scopeVars, schedVars>>

\* included = []; excluded = []; the playbook's criteria are read
LoadPlaybook ==
  /\ pc = "validate"
  /\ vi > Len(items)
  /\ \E cs \in Playbooks : criteria' = cs
  /\ pc' = "select"
  /\ ci' = 1
  /\ ii' = 1
  /\ included' = <<>>
  /\ excluded' = <<>>
  /\ UNCHANGED <<collected, items, kwargs, vi, hit, usedFallback, exitName,
                 raised>>
  /\ UNCHANGED <<scopeVars, schedVars>>

\* One turn of `for c in criteria: for item in items:`
SelectStep ==
  /\ pc = "select"
  /\ ci <= Len(criteria)
  /\ ii <= Len(items)
  /\ LET c == criteria[ci]
         i == items[ii]
         m == Selects(c, i, kwargs)
         r == IF m THEN select(i, c.times, c.exclude, included, excluded)
              ELSE [included |-> included, excluded |-> excluded]
     IN /\ hit' = m
        /\ included' = r.included
        /\ excluded' = r.excluded
  /\ IF ii < Len(items)
     THEN ii' = ii + 1 /\ ci' = ci
     ELSE ii' = 1 /\ ci' = ci + 1
  /\ UNCHANGED <<collected, items, kwargs, pc, vi, criteria, usedFallback,
                 exitName, raised>>
  /\ UNCHANGED <<scopeVars, schedVars>>

\* The fallback and `items[:] = [...]`
Finish ==
  /\ pc = "select"
  /\ ci > Len(criteria) \/ items = <<>>
  /\ usedFallback' = (included = <<>>)
  /\ included' = Fallback(included, items)
  /\ items' = FinalItems(included', excluded)
  /\ pc' = "done"
  /\ UNCHANGED <<collected, kwargs, vi, criteria, ci, ii, excluded, hit,
                 exitName, raised>>
  /\ UNCHANGED <<scopeVars, schedVars>>

NextHook == ValidateItem \/ LoadPlaybook \/ SelectStep \/ Finish

Spec == Init /\ [][NextHook]_vars

\* The hook before it is called
HookIdle ==
  /\ collected = <<>>
  /\ items = <<>>
  /\ kwargs = InitialKwargs
  /\ pc = "idle"
  /\ vi = 1
  /\ criteria = <<>>
  /\ ci = 1
  /\ ii = 1
  /\ included = <<>>
  /\ excluded = <<>>
  /\ hit = FALSE
  /\ usedFallback = FALSE
  /\ exitName = <<>>
  /\ raised = ""

(***************************************************************************)
(* The scope extractor on its own: a node id is drawn and _split_scope is  *)
(* called on it                                                            *)
(***************************************************************************)
InitScope ==
  /\ HookIdle
  /\ SchedIdle
  /\ parts \in NodeParts
  /\ nodeid = NodeId(parts)
  /\ scope = None

SplitScope ==
  /\ scope = None
  /\ scope' = Some(_split_scope(nodeid))
  /\ UNCHANGED <<parts, nodeid>>
  /\ UNCHANGED <<hookVars, schedVars>>

SpecScope == InitScope /\ [][SplitScope]_vars

(***************************************************************************)
(* The scope scheduler's run                                               *)
(***************************************************************************)
InitSched ==
  /\ HookIdle
  /\ ScopeIdle
  /\ phase = "COLLECTING"
  /\ collection \in SeqsUpTo(SchedNodeIds, MaxNodes) \cup {Scenario4}
  /\ units = <<>>
  /\ workqueue = <<>>
  /\ workers = <<>>
  /\ gone = {}
  /\ outstanding = [w \in WorkerIds |-> <<>>]
  /\ assignments = <<>>
  /\ completed = {}
  /\ failed = {}

\* register() -> workerId
Register(w) ==
  /\ phase # "DONE"
  /\ w \notin Range(workers) \cup gone
  /\ workers' = Append(workers, w)
  /\ UNCHANGED <<phase, collection, units, workqueue, gone, outstanding,
                 assignments, completed, failed>>
  /\ UNCHANGED <<hookVars, scopeVars>>

\* COLLECTING: the items are grouped into scopes; the run goes on once a
\* worker has registered
GroupScopes ==
  /\ phase = "COLLECTING"
  /\ workers # <<>>
  /\ workqueue' = ScopeKeys(collection)
  /\ units' = [key \in Range(ScopeKeys(collection)) |-> Unit(collection, key)]
  /\ phase' = "DISTRIBUTING"
  /\ UNCHANGED <<collection, workers, gone, outstanding, assignments,
                 completed, failed>>
  /\ UNCHANGED <<hookVars, scopeVars>>

\* assign(workerId, scope, items[]): the next unassigned scope goes whole to
\* the least loaded worker
Assign ==
  /\ phase \in {"DISTRIBUTING", "DRAINING"}
  /\ workqueue # <<>>
  /\ workers # <<>>
  /\ LET key == Head(workqueue)
         w == LeastLoaded(workers, outstanding, units)
     IN /\ outstanding' = [outstanding EXCEPT ![w] = Append(@, key)]
        /\ assignments' =
             Append(assignments, [worker |-> w, scope |-> key, items |-> units[key]])
  /\ workqueue' = Tail(workqueue)
  /\ UNCHANGED <<phase, collection, units, workers, gone, completed, failed>>
  /\ UNCHANGED <<hookVars, scopeVars>>

\* reportCompletion(workerId, scope)
ReportCompletion(w, key) ==
  /\ phase \in {"DISTRIBUTING", "DRAINING"}
  /\ w \in Range(workers)
  /\ key \in Range(outstanding[w])
  /\ outstanding' = [outstanding EXCEPT ![w] = Without(@, key)]
  /\ completed' = completed \cup {key}
  /\ phase' = "DRAINING"
  /\ UNCHANGED <<collection, units, workqueue, workers, gone, assignments,
                 failed>>
  /\ UNCHANGED <<hookVars, scopeVars>>

\* disconnect(workerId): the worker's outstanding scopes are lost, not
\* assigned again
Disconnect(w) ==
  /\ phase # "DONE"
  /\ w \in Range(workers)
  /\ workers' = Without(workers, w)
  /\ gone' = gone \cup {w}
  /\ failed' = failed \cup Range(outstanding[w])
  /\ outstanding' = [outstanding EXCEPT ![w] = <<>>]
  /\ UNCHANGED <<phase, collection, units, workqueue, assignments, completed>>
  /\ UNCHANGED <<hookVars, scopeVars>>

\* DISTRIBUTING -> DRAINING once every scope is assigned
StartDraining ==
  /\ phase = "DISTRIBUTING"
  /\ workqueue = <<>>
  /\ phase' = "DRAINING"
  /\ UNCHANGED <<collection, units, workqueue, workers, gone, outstanding,
                 assignments, completed, failed>>
  /\ UNCHANGED <<hookVars, scopeVars>>

\* A slip: DONE as soon as every scope is assigned, work still out
AllDone_early ==
  /\ phase = "DRAINING"
  /\ workqueue = <<>>
  /\ phase' = "DONE"
  /\ UNCHANGED <<collection, units, workqueue, workers, gone, outstanding,
                 assignments, completed, failed>>
  /\ UNCHANGED <<hookVars, scopeVars>>

\* DRAINING -> DONE: every scope assigned, nothing outstanding
AllDone ==
  /\ phase = "DRAINING"
  /\ workqueue = <<>>
  /\ \A w \in WorkerIds : outstanding[w] = <<>>
  /\ phase' = "DONE"
  /\ UNCHANGED <<collection, units, workqueue, workers, gone, outstanding,
                 assignments, completed, failed>>
  /\ UNCHANGED <<hookVars, scopeVars>>

NextSched ==
  \/ \E w \in WorkerIds : Register(w)
  \/ GroupScopes
  \/ Assign
  \/ \E w \in WorkerIds : \E key \in Range(outstanding[w]) : ReportCompletion(w, key)
  \/ \E w \in WorkerIds : Disconnect(w)
  \/ StartDraining
  \/ AllDone

SpecSched == InitSched /\ [][NextSched]_vars

\* The coordinator is event driven: a decision that stays possible is taken,
\* and a worker that stays connected reports the scopes it holds.  Workers
\* register and disconnect as they please.
FairSched ==
  /\ WF_vars(GroupScopes)
  /\ WF_vars(Assign)
  /\ WF_vars(StartDraining)
  /\ WF_vars(AllDone)
  /\ WF_vars(\E w \in WorkerIds :
               \E key \in Range(outstanding[w]) : ReportCompletion(w, key))

SpecSchedFair == SpecSched /\ FairSched

(***************************************************************************)
(* Properties of pytest_collection_modifyitems                             *)
(***************************************************************************)
Max(S) == CHOOSE x \in S : \A y \in S : y <= x

Positions == 1..Len(collected)
Records == 1..Len(criteria)

\* The loops have handled criteria record k for the item at position j
Processed(k, j) == pc = "done" \/ k < ci \/ (k = ci /\ j < ii)

\* Every turn of both loops is over and the fallback is not yet looked at
AllProcessed == pc = "select" /\ (ci > Len(criteria) \/ items = <<>>)

\* The exclude=false (exclude=true) records that selected the item at j so far
IncludeHits(j) ==
  {k \in Records : /\ Processed(k, j)
                   /\ ~criteria[k].exclude
                   /\ Selects(criteria[k], collected[j], kwargs)}
ExcludeHits(j) ==
  {k \in Records : /\ Processed(k, j)
                   /\ criteria[k].exclude
                   /\ Selects(criteria[k], collected[j], kwargs)}

HitTimes(j) == {criteria[k].times : k \in IncludeHits(j)}

\* C1 as stated: once every record is processed, an item matched by
\* exclude=false records occurs in `included` max(t1, t2, ...) times.
C1_CountIsMaxOfTimes ==
  AllProcessed =>
    \A j \in Positions :
      HitTimes(j) # {} => Count(collected[j], included) = Max(HitTimes(j))

\* C1 amended: at every point of the criteria loops, each item occurs in
\* `included` max(0, t1, t2, ...) times, t1, t2, ... being the times of the
\* exclude=false records that matched it so far; never their sum.
C1_CountIsMaxOfTimesOrZero ==
  pc = "select" =>
    \A j \in Positions :
      Count(collected[j], included) = Max(HitTimes(j) \cup {0})

\* An item matched first with times 1 and later with times 2 occurs twice,
\* and one matched with times 2 and later with times 1 occurs twice as well
C1_Witness ==
  /\ AllProcessed
  /\ Len(criteria) = 2
  /\ \E j \in Positions :
       /\ IncludeHits(j) = {1, 2}
       /\ criteria[1].times = 1
       /\ criteria[2].times = 2
       /\ Count(collected[j], included) = 2

\* The items an exclude=true record matched
ExcludeMatched == {collected[j] : j \in {p \in Positions : ExcludeHits(p) # {}}}
\* The items an exclude=false record matched
IncludeMatched == {collected[j] : j \in {p \in Positions : IncludeHits(p) # {}}}

\* C2: an item that matches an exclude=true record is not in the final list.
C2_ExclusionWins ==
  pc = "done" => \A i \in ExcludeMatched : i \notin Range(items)

\* The exclude record comes first and the item is then included twice
C2_Witness ==
  /\ pc = "done"
  /\ Len(criteria) = 2
  /\ criteria[1].exclude
  /\ \E j \in Positions :
       /\ ExcludeHits(j) = {1}
       /\ IncludeHits(j) = {2}
       /\ Count(collected[j], included) = 2
       /\ collected[j] \notin Range(items)

NotExcludeMatched(i) == i \notin ExcludeMatched

\* C3: when no exclude=false record matches any item, `included` becomes the
\* original collection and the final list is the original collection, in its
\* order, without the items that exclude=true records matched.
C3_FallbackRunsEverything ==
  (pc = "done" /\ IncludeMatched = {}) =>
    /\ usedFallback
    /\ included = collected
    /\ items = SelectSeq(collected, NotExcludeMatched)

\* Only exclude records, one of which matched: the rest of the collection runs
C3_Witness ==
  /\ pc = "done"
  /\ IncludeMatched = {}
  /\ criteria # <<>>
  /\ ExcludeMatched # {}
  /\ Len(items) = 1
  /\ Len(collected) = 2

PriorityOnly(p) == [DefaultCriteria EXCEPT !.priority = Some(p)]

HasPriority(i, p) == HasMark(i) /\ kwargs[i].priority = p

\* The criteria record and the item of the last turn of the loops
LastTurn ==
  IF ii > 1 THEN [c |-> criteria[ci], i |-> items[ii - 1]]
  ELSE [c |-> criteria[ci - 1], i |-> items[Len(items)]]
TurnTaken == pc = "select" /\ (ii > 1 \/ ci > 1)

\* C4: a record whose only set field is priority = p matches exactly the
\* marked items of priority p, for p in 0..3, and alone in the playbook it
\* yields exactly those items (when the collection has any).
C4_PriorityRecordSelectsPriority ==
  \A p \in Priorities :
    criteria = <<PriorityOnly(p)>> =>
      /\ (TurnTaken /\ HasMark(LastTurn.i)) =>
           (hit <=> HasPriority(LastTurn.i, p))
      /\ (pc = "done" /\ \E i \in Range(collected) : HasPriority(i, p)) =>
           \A i \in Range(collected) :
             Count(i, items) = IF HasPriority(i, p) THEN 1 ELSE 0

\* What validate_mark raises for item i as collected
Violation(i) == validate_mark(CurrentMark(i, InitialKwargs)).raised
FirstViolation ==
  LET bad == {j \in Positions : Violation(collected[j]) # ""}
  IN CHOOSE j \in bad : \A k \in bad : j <= k

\* C7: when an item's metadata violates the schema, the hook ends at the first
\* such item with pytest.exit naming that item and the cause; nothing is
\* selected and `items` is as collected.
C7_ValidationFailsFast ==
  (\E j \in Positions : Violation(collected[j]) # "") =>
    /\ pc \in {"validate", "exit"}
    /\ included = <<>> /\ excluded = <<>> /\ items = collected
    /\ vi <= FirstViolation
    /\ pc = "exit" =>
         /\ vi = FirstViolation
         /\ exitName = ItemPool[collected[vi]].name
         /\ raised = Violation(collected[vi])

\* A criteria field is set when it is given and not empty
SetStr(o) == o # None /\ o[1] # <<>>
SetInt(o) == o # None
SetList(l) == l # <<>>

\* C8's matching: at least one set field is satisfied
FieldMatch(c, i) ==
  LET it == ItemPool[i]
      kw == kwargs[i]
  IN \/ SetStr(c.name) /\ StrIn(c.name[1], it.name)
     \/ SetStr(c.module) /\ StrIn(c.module[1], it.module)
     \/ SetStr(c.area) /\ casefold(c.area[1]) = casefold(kw.area)
     \/ SetStr(c.category) /\ casefold(c.category[1]) = casefold(kw.category)
     \/ SetInt(c.priority) /\ c.priority[1] = kw.priority
     \/ SetList(c.tags) /\ Range(c.tags) \subseteq Range(kw.tags)

\* C8: a record matches a marked item if and only if at least one of its set
\* fields is satisfied by the item.
C8_MatchIsOrOfSetFields ==
  (TurnTaken /\ HasMark(LastTurn.i)) => (hit <=> FieldMatch(LastTurn.c, LastTurn.i))

\* C9 as stated: when some item matches some exclude=false record, the
\* fallback is not applied and only items that matched such a record remain.
C9_FallbackOnlyWithoutMatch ==
  (pc = "done" /\ IncludeMatched # {}) =>
    /\ ~usedFallback
    /\ Range(items) \subseteq IncludeMatched

\* The items an exclude=false record with times >= 1 matched
IncludeMatchedOnce ==
  {collected[j] : j \in {p \in Positions :
                           \E k \in IncludeHits(p) : criteria[k].times >= 1}}

\* C9 amended: when some item matches some exclude=false record whose times is
\* at least 1, the fallback is not applied and only items that matched an
\* exclude=false record remain.
C9_FallbackOnlyWithoutCopies ==
  (pc = "done" /\ IncludeMatchedOnce # {}) =>
    /\ ~usedFallback
    /\ Range(items) \subseteq IncludeMatched

\* One of two items matched and is kept, the other is dropped
C9_Witness ==
  /\ pc = "done"
  /\ IncludeMatchedOnce # {}
  /\ ~usedFallback
  /\ Len(collected) = 2
  /\ Len(items) = 1

Unmarked == {i \in Range(collected) : ~HasMark(i)}

\* C10: an item without the marker is never put in `included` or `excluded`
\* by a criteria record; it is in the final list exactly when the fallback was
\* applied, then as often as it was collected, whatever the exclude records.
C10_UnmarkedOnlyByFallback ==
  \A i \in Unmarked :
    /\ pc = "select" => i \notin Range(included) /\ i \notin Range(excluded)
    /\ pc = "done" =>
         /\ i \notin Range(excluded)
         /\ Count(i, items) = IF usedFallback THEN Count(i, collected) ELSE 0

\* An unmarked item whose name an exclude=true record names runs by the
\* fallback
C10_Witness ==
  /\ pc = "done"
  /\ usedFallback
  /\ \E i \in Unmarked :
       /\ i \in Range(items)
       /\ \E k \in Records :
            /\ criteria[k].exclude
            /\ TruthyStr(criteria[k].name)
            /\ StrIn(criteria[k].name[1], ItemPool[i].name)

(***************************************************************************)
(* Properties of _split_scope                                              *)
(***************************************************************************)
IsWord(t) == t # <<>> /\ Range(t) \subseteq WordChars

\* The parameters of the node id that are bracketed tokens
Tokens == SelectSeq(parts.params, IsWord)

\* C6: for a node id with one or more bracketed tokens the scope is those
\* tokens, left to right, joined with "/", whatever the module and the test
\* function; for a node id without brackets it is the node id up to its last
\* "::".
C6_ScopeIsJoinedTokens ==
  scope # None =>
    /\ Tokens # <<>> => scope[1] = join(Tokens)
    /\ parts.params = <<>> => scope[1] = parts.path

\* m::g[A][B] has scope A/B
C6_Witness ==
  /\ scope = Some(<<"A", "/", "B">>)
  /\ parts = [path |-> <<"m">>, func |-> <<"g">>, params |-> <<<<"A">>, <<"B">>>>]

(***************************************************************************)
(* Properties of the scope scheduler                                       *)
(***************************************************************************)
Sent == 1..Len(assignments)

\* C5: a scope is assigned to at most one worker, no two workers hold the same
\* scope, and two items with the same scope (by _split_scope) are assigned
\* together, in one work unit, to one worker.
C5_ScopesNeverSplit ==
  /\ \A a, b \in Sent : assignments[a].scope = assignments[b].scope => a = b
  /\ \A v, w \in WorkerIds :
       v # w => Range(outstanding[v]) \cap Range(outstanding[w]) = {}
  /\ \A p, q \in 1..Len(collection) :
       _split_scope(collection[p]) = _split_scope(collection[q]) =>
         \A a \in Sent :
           p \in Range(assignments[a].items) <=> q \in Range(assignments[a].items)

\* Two test functions parametrized with A run as one unit on one worker and
\* another scope is out on the other worker, after a completion and a
\* disconnect
C5_Witness ==
  /\ \E a, b \in Sent :
       /\ Len(assignments[a].items) = 2
       /\ \E p, q \in Range(assignments[a].items) : collection[p] # collection[q]
       /\ assignments[b].worker # assignments[a].worker
  /\ completed # {}
  /\ gone # {}

\* The place of a connected worker in the registration order
Place(w) == CHOOSE k \in 1..Len(workers) : workers[k] = w

\* The items out on a worker
Outstanding(w) == Load(outstanding[w], units)

\* The step sends one assign(workerId, scope, items[])
Assigning == Len(assignments') = Len(assignments) + 1

\* C11: every assignment sends the next unassigned scope, whole, to a
\* registered worker whose outstanding work is the least of all registered
\* workers at that moment, the first registered of those with the least; the
\* scope then counts as outstanding on that worker and on no other.
C11_LeastLoadedAssignment ==
  [][Assigning =>
       LET sent == assignments'[Len(assignments')]
       IN /\ sent.worker \in Range(workers)
          /\ sent.scope = Head(workqueue)
          /\ sent.items = Unit(collection, sent.scope)
          /\ \A w \in Range(workers) :
               /\ Outstanding(sent.worker) <= Outstanding(w)
               /\ Outstanding(sent.worker) = Outstanding(w) =>
                    Place(sent.worker) <= Place(w)
          /\ outstanding' =
               [outstanding EXCEPT ![sent.worker] = Append(@, sent.scope)]
          /\ SubSeq(assignments', 1, Len(assignments)) = assignments]_vars

\* Scenario 4 with two workers, worker 2 registered first: the scope of 5
\* items is out on worker 2 and both scopes of 1 item on worker 1
C11_Witness ==
  /\ collection = Scenario4
  /\ workers = <<2, 1>>
  /\ Len(assignments) = 3
  /\ Len(assignments[1].items) = 5 /\ assignments[1].worker = 2
  /\ Len(assignments[2].items) = 1 /\ assignments[2].worker = 1
  /\ Len(assignments[3].items) = 1 /\ assignments[3].worker = 1
  /\ Len(outstanding[1]) = 2

\* The phases in their order
PhaseOrder ==
  {<<"COLLECTING", "DISTRIBUTING">>, <<"DISTRIBUTING", "DRAINING">>,
   <<"DRAINING", "DONE">>}

AssignedScopes == {assignments[a].scope : a \in Sent}

\* C12: the phase only moves along COLLECTING, DISTRIBUTING, DRAINING, DONE;
\* no scope is assigned while no worker has registered; DONE is entered only
\* with every scope assigned, nothing outstanding and every assigned scope
\* reported complete (a scope that was out on a worker that disconnected is
\* lost instead); and if a worker stays connected, every scope is eventually
\* assigned and the scheduler reaches DONE.
C12_SchedulerProgress ==
  /\ [][phase' # phase => <<phase, phase'>> \in PhaseOrder]_vars
  /\ [][Assigning => workers # <<>>]_vars
  /\ [](assignments # <<>> => workers # <<>> \/ gone # {})
  /\ [](phase = "DONE" =>
          /\ workqueue = <<>>
          /\ AssignedScopes = Range(ScopeKeys(collection))
          /\ \A w \in WorkerIds : outstanding[w] = <<>>
          /\ AssignedScopes \subseteq completed \cup failed
          /\ failed = {} => AssignedScopes \subseteq completed)
  /\ <>[](workers # <<>>) =>
       /\ <>(phase # "COLLECTING" /\ workqueue = <<>>)
       /\ <>(phase = "DONE")

\* DONE after three scopes were assigned and every one reported complete,
\* one worker having left with nothing outstanding and one still connected
C12_Witness ==
  /\ phase = "DONE"
  /\ Len(assignments) = 3
  /\ AssignedScopes \subseteq completed
  /\ failed = {}
  /\ gone # {}
  /\ workers # <<>>

(***************************************************************************)
(* The order of the final item list                                        *)
(***************************************************************************)
\* The copies criteria record k appends for the item at position j: what is
\* missing to its times after the exclude=false records before k that
\* selected the item
TopUp(k, j) ==
  LET earlier == {criteria[h].times :
                    h \in {g \in 1..(k - 1) :
                             /\ ~criteria[g].exclude
                             /\ Selects(criteria[g], collected[j], kwargs)}}
      held == Max(earlier \cup {0})
  IN IF /\ ~criteria[k].exclude
        /\ Selects(criteria[k], collected[j], kwargs)
        /\ criteria[k].times > held
     THEN Copies(collected[j], criteria[k].times - held)
     ELSE <<>>

\* The copies appended in the turns up to record k and position j, record by
\* record and, within a record, position by position
RECURSIVE AppendedUpTo(_, _)
AppendedUpTo(k, j) ==
  IF k = 0 \/ k > Len(criteria) \/ collected = <<>> THEN <<>>
  ELSE IF j = 0 THEN AppendedUpTo(k - 1, Len(collected))
  ELSE AppendedUpTo(k, j - 1) \o TopUp(k, j)

\* C13: `included` holds the top-up copies record by record in declaration
\* order and, within a record, item by item in collection order, the copies
\* of one item for one record side by side; the final list is `included`
\* (the whole collection when the fallback applied) without the excluded
\* items, the rest in unchanged order.
C13_FinalListOrder ==
  /\ pc = "select" /\ ci <= Len(criteria) => included = AppendedUpTo(ci, ii - 1)
  /\ AllProcessed => included = AppendedUpTo(Len(criteria), Len(collected))
  /\ pc = "done" =>
       LET all == AppendedUpTo(Len(criteria), Len(collected))
           kept(i) == i \notin ExcludeMatched
       IN /\ included = (IF all = <<>> THEN collected ELSE all)
          /\ items = SelectSeq(included, kept)

\* Items of priority 1, 2 and 1 with the record {priority: 1, times: 2}: the
\* final list is t1, t1, t3, t3
C13_Witness ==
  /\ pc = "done"
  /\ collected = PriorityOneTwoOne
  /\ criteria = <<PriorityOneTwice>>
  /\ items = <<collected[1], collected[1], collected[3], collected[3]>>
  /\ kwargs[collected[1]].priority = 1
  /\ kwargs[collected[2]].priority = 2
  /\ kwargs[collected[3]].priority = 1

(***************************************************************************)
(* _split_scope on node ids without a bracketed token                      *)
(***************************************************************************)
\* C14: for a node id from which no [token] of word characters can be
\* extracted, brackets or not, _split_scope returns the node id up to its
\* last "::", and not the empty scope.
C14_NoTokenFallsBack ==
  scope # None /\ Tokens = <<>> =>
    /\ scope[1] = rsplit_scope(nodeid)
    /\ scope[1] # <<>>

(***************************************************************************)
(* The order of the criteria records                                       *)
(***************************************************************************)
\* The lists with the records of cs in another order
Reorderings(cs) ==
  LET n == Len(cs)
      shuffles == {f \in [1..n -> 1..n] : \A a, b \in 1..n : f[a] = f[b] => a = b}
  IN {[k \in 1..n |-> cs[f[k]]] : f \in shuffles}

\* C15: the hook run on the same items with the criteria records in any
\* other order gives a final list that holds every item as many times as the
\* list of this run, and applies the fallback if and only if this run did.
C15_CriteriaOrderKeepsContents ==
  pc = "done" =>
    /\ modifyitems(collected, criteria, kwargs) =
         [items |-> items, fallback |-> usedFallback]
    /\ \A cs \in Reorderings(criteria) :
         LET other == modifyitems(collected, cs, kwargs)
         IN /\ \A i \in ItemIds : Count(i, other.items) = Count(i, items)
            /\ other.fallback = usedFallback

\* Two records whose order shows in the final list: swapped, they give the
\* same items the same number of times in another order
C15_Witness ==
  /\ pc = "done"
  /\ Len(criteria) = 2
  /\ ~usedFallback
  /\ Len(items) > Len(collected)
  /\ modifyitems(collected, <<criteria[2], criteria[1]>>, kwargs).items # items

====
